---- MODULE Spec2Model ----
(***************************************************************************)
(* foodline-bot: a LINE webhook bot that echoes text messages and, for     *)
(* image messages, acknowledges, downloads the image, recognises the food, *)
(* estimates its calories and pushes the result to the sender.             *)
(*                                                                         *)
(* The repository holds four versions of the webhook handler:              *)
(*   "webhook"  src/api/webhook.ts      (detached background task)         *)
(*   "server"   src/src/server.ts       (detached background task, uses    *)
(*              services/calorie.ts and the vision service of part_002)    *)
(*   "part000"  src/unnamed/part_000    (inline pipeline, label detection) *)
(*   "part001"  src/unnamed/part_001    (inline pipeline, food classifier) *)
(*                                                                         *)
(* Strings are sequences of one-character strings, so that toLowerCase,    *)
(* trim, includes and template concatenation are computed, not assumed.    *)
(* A character outside ASCII is written by its code point ("u6536").       *)
(***************************************************************************)
EXTENDS FiniteSets, Integers, Sequences, TLC


(***************************************************************************)
(* Bounds of the model.                                                    *)
(***************************************************************************)
MaxEvents == 2
MaxWords == 2
MaxLabels == 2

(***************************************************************************)
(* String literals of the source that several definitions share.           *)
(***************************************************************************)
S_food == <<"f", "o", "o", "d">>
S_ramen_noodles == <<"r", "a", "m", "e", "n", " ", "n", "o", "o", "d", "l", "e", "s">>
S_unknown_food == <<"u", "n", "k", "n", "o", "w", "n", " ", "f", "o", "o", "d">>
S_constructor == <<"c", "o", "n", "s", "t", "r", "u", "c", "t", "o", "r">>
S_proto == <<"_", "_", "p", "r", "o", "t", "o", "_", "_">>

(***************************************************************************)
(* JavaScript string primitives used by the estimator and the recogniser.  *)
(***************************************************************************)
UpperChars == <<"A", "B", "C", "D", "E", "F", "G", "H", "I", "J", "K", "L", "M",
                "N", "O", "P", "Q", "R", "S", "T", "U", "V", "W", "X", "Y", "Z">>
LowerChars == <<"a", "b", "c", "d", "e", "f", "g", "h", "i", "j", "k", "l", "m",
                "n", "o", "p", "q", "r", "s", "t", "u", "v", "w", "x", "y", "z">>
WhiteSpace == {" ", "\t", "\n"}

LowerChar(c) ==
  IF \E j \in 1..Len(UpperChars) : UpperChars[j] = c
    THEN LowerChars[CHOOSE j \in 1..Len(UpperChars) : UpperChars[j] = c]
    ELSE c

UpperChar(c) ==
  IF \E j \in 1..Len(LowerChars) : LowerChars[j] = c
    THEN UpperChars[CHOOSE j \in 1..Len(LowerChars) : LowerChars[j] = c]
    ELSE c

\* String.prototype.toLowerCase
toLowerCase(s) == [n \in 1..Len(s) |-> LowerChar(s[n])]

\* String.prototype.toUpperCase (used to build inputs only)
toUpperCase(s) == [n \in 1..Len(s) |-> UpperChar(s[n])]

\* String.prototype.trim: drop the white space at both ends
RECURSIVE trimStart(_)
trimStart(s) ==
  IF s # <<>> /\ Head(s) \in WhiteSpace THEN trimStart(Tail(s)) ELSE s

RECURSIVE trimEnd(_)
trimEnd(s) ==
  IF s # <<>> /\ s[Len(s)] \in WhiteSpace THEN trimEnd(SubSeq(s, 1, Len(s) - 1)) ELSE s

\* a trim that forgets the trailing white space
trimLeadingOnly(s) == trimStart(s)

trim(s) == trimEnd(trimStart(s))

\* String.prototype.includes
includes(s, k) ==
  \E n \in 0..(Len(s) - Len(k)) : SubSeq(s, n + 1, n + Len(k)) = k

(***************************************************************************)
(* Values of a JavaScript property read: a number, an object (a property   *)
(* inherited from Object.prototype) or undefined.                          *)
(***************************************************************************)
Num(n) == [type |-> "number", n |-> n]
ObjectValue == [type |-> "object", n |-> 0]
Undefined == [type |-> "undefined", n |-> 0]

(***************************************************************************)
(* Calorie estimator.  "service" is src/src/services/calorie.ts (used by   *)
(* server.ts); "inline" is the copy in api/webhook.ts, part_000, part_001. *)
(***************************************************************************)
Estimators == {"service", "inline"}
DefaultCalories == 200

\* FOOD_CALORIE_TABLE: the same ten entries in every copy
FOOD_CALORIE_TABLE ==
  << [key |-> <<"a", "p", "p", "l", "e">>, kcal |-> 95],
     [key |-> <<"b", "a", "n", "a", "n", "a">>, kcal |-> 105],
     [key |-> <<"r", "i", "c", "e">>, kcal |-> 200],
     [key |-> <<"b", "r", "e", "a", "d">>, kcal |-> 80],
     [key |-> <<"f", "r", "i", "e", "d", " ", "c", "h", "i", "c", "k", "e", "n">>, kcal |-> 320],
     [key |-> <<"h", "a", "m", "b", "u", "r", "g", "e", "r">>, kcal |-> 500],
     [key |-> <<"p", "i", "z", "z", "a">>, kcal |-> 285],
     [key |-> <<"s", "a", "l", "a", "d">>, kcal |-> 150],
     [key |-> <<"n", "o", "o", "d", "l", "e", "s">>, kcal |-> 250],
     [key |-> <<"s", "u", "s", "h", "i">>, kcal |-> 50] >>

\* keywordToFood of services/calorie.ts, in declared order
keywordToFoodService ==
  << [keywords |-> << <<"r", "i", "c", "e">>, <<"r", "i", "s", "o", "t", "t", "o">> >>,
      food |-> <<"r", "i", "c", "e">>],
     [keywords |-> << <<"b", "r", "e", "a", "d">>, <<"t", "o", "a", "s", "t">>, <<"b", "u", "n">> >>,
      food |-> <<"b", "r", "e", "a", "d">>],
     [keywords |-> << <<"n", "o", "o", "d", "l", "e">>, <<"s", "p", "a", "g", "h", "e", "t", "t", "i">>, <<"r", "a", "m", "e", "n">>, <<"u", "d", "o", "n">> >>,
      food |-> <<"n", "o", "o", "d", "l", "e", "s">>],
     [keywords |-> << <<"b", "u", "r", "g", "e", "r">> >>,
      food |-> <<"h", "a", "m", "b", "u", "r", "g", "e", "r">>],
     [keywords |-> << <<"p", "i", "z", "z", "a">> >>,
      food |-> <<"p", "i", "z", "z", "a">>],
     [keywords |-> << <<"s", "u", "s", "h", "i">> >>,
      food |-> <<"s", "u", "s", "h", "i">>],
     [keywords |-> << <<"s", "a", "l", "a", "d">> >>,
      food |-> <<"s", "a", "l", "a", "d">>],
     [keywords |-> << <<"c", "h", "i", "c", "k", "e", "n">> >>,
      food |-> <<"f", "r", "i", "e", "d", " ", "c", "h", "i", "c", "k", "e", "n">>],
     [keywords |-> << <<"a", "p", "p", "l", "e">> >>,
      food |-> <<"a", "p", "p", "l", "e">>],
     [keywords |-> << <<"b", "a", "n", "a", "n", "a">> >>,
      food |-> <<"b", "a", "n", "a", "n", "a">>] >>

\* keywordToFood of api/webhook.ts (and part_000, part_001), in declared order
keywordToFoodInline ==
  << [keywords |-> << <<"r", "i", "c", "e">>, <<"r", "i", "s", "o", "t", "t", "o">> >>,
      food |-> <<"r", "i", "c", "e">>],
     [keywords |-> << <<"n", "o", "o", "d", "l", "e">>, <<"s", "p", "a", "g", "h", "e", "t", "t", "i">>, <<"r", "a", "m", "e", "n">>, <<"u", "d", "o", "n">> >>,
      food |-> <<"n", "o", "o", "d", "l", "e", "s">>],
     [keywords |-> << <<"b", "u", "r", "g", "e", "r">> >>,
      food |-> <<"h", "a", "m", "b", "u", "r", "g", "e", "r">>],
     [keywords |-> << <<"p", "i", "z", "z", "a">> >>,
      food |-> <<"p", "i", "z", "z", "a">>],
     [keywords |-> << <<"c", "h", "i", "c", "k", "e", "n">> >>,
      food |-> <<"f", "r", "i", "e", "d", " ", "c", "h", "i", "c", "k", "e", "n">>],
     [keywords |-> << <<"a", "p", "p", "l", "e">> >>,
      food |-> <<"a", "p", "p", "l", "e">>],
     [keywords |-> << <<"b", "a", "n", "a", "n", "a">> >>,
      food |-> <<"b", "a", "n", "a", "n", "a">>] >>

\* a rule list whose first rule names a food the table does not hold
keywordToFoodMissingCanonical(which) ==
  << [keywords |-> << <<"r", "i", "c", "e">>, <<"r", "i", "s", "o", "t", "t", "o">> >>,
      food |-> <<"r", "i", "s", "o", "t", "t", "o">>] >>
    \o Tail(IF which = "service" THEN keywordToFoodService ELSE keywordToFoodInline)

keywordToFood(which) ==
  IF which = "service" THEN keywordToFoodService ELSE keywordToFoodInline

TableKeys == {FOOD_CALORIE_TABLE[n].key : n \in 1..Len(FOOD_CALORIE_TABLE)}

\* FOOD_CALORIE_TABLE[name]: an own key gives its number; the table is a plain
\* object literal, so a name of Object.prototype gives an inherited object
TableLookup(name) ==
  IF name \in TableKeys
    THEN Num(FOOD_CALORIE_TABLE[CHOOSE n \in 1..Len(FOOD_CALORIE_TABLE) :
                                  FOOD_CALORIE_TABLE[n].key = name].kcal)
    ELSE IF name \in {S_constructor, S_proto} THEN ObjectValue ELSE Undefined

\* a match that looks at the first keyword of a rule only
RuleMatchesFirstKeyword(rule, normalized) ==
  includes(normalized, rule.keywords[1])

\* pair.keywords.some(k => normalized.includes(k))
RuleMatches(rule, normalized) ==
  \E n \in 1..Len(rule.keywords) : includes(normalized, rule.keywords[n])

\* a loop that does not return at the first match: the last matching rule wins
LastMatchingRule(rules, normalized) ==
  IF \E n \in 1..Len(rules) : RuleMatches(rules[n], normalized)
    THEN CHOOSE n \in 1..Len(rules) :
           /\ RuleMatches(rules[n], normalized)
           /\ \A m \in (n + 1)..Len(rules) : ~RuleMatches(rules[m], normalized)
    ELSE 0

\* the for loop over keywordToFood: the index of the first matching rule, 0 if none
FirstMatchingRule(rules, normalized) ==
  IF \E n \in 1..Len(rules) : RuleMatches(rules[n], normalized)
    THEN CHOOSE n \in 1..Len(rules) :
           /\ RuleMatches(rules[n], normalized)
           /\ \A m \in 1..(n - 1) : ~RuleMatches(rules[m], normalized)
    ELSE 0

estimateCalories(which, foodLabelRaw) ==
  LET normalized == trim(toLowerCase(foodLabelRaw))
      rules == keywordToFood(which)
      hit == FirstMatchingRule(rules, normalized)
  IN  IF TableLookup(normalized) # Undefined
        THEN [foodName |-> normalized,
              estimatedCalories |-> TableLookup(normalized),
              unit |-> "kcal"]
        ELSE IF hit # 0
          THEN [foodName |-> rules[hit].food,
                estimatedCalories |->
                  IF TableLookup(rules[hit].food) # Undefined
                    THEN TableLookup(rules[hit].food)
                    ELSE Num(DefaultCalories),
                unit |-> "kcal"]
          ELSE [foodName |-> IF normalized = <<>> THEN S_food ELSE normalized,
                estimatedCalories |-> Num(DefaultCalories),
                unit |-> "kcal"]

(***************************************************************************)
(* Recognition.  A score is kept in units of 1/10000 (0.85 is 8500).       *)
(***************************************************************************)
Variants == {"webhook", "server", "part000", "part001"}

\* a recognition result, or null; labelled is FALSE when the label property
\* is undefined (the class the service returned has no label)
Null == [present |-> FALSE, labelled |-> FALSE, label |-> <<>>, score |-> 0]
Result(label, score) ==
  [present |-> TRUE, labelled |-> TRUE, label |-> label, score |-> score]
\* { label: top.label, score: top.score }
ResultOf(class) ==
  [present |-> TRUE, labelled |-> class.labelled, label |-> class.label,
   score |-> class.score]

TestModeScore == 8500
TestModeResult == Result(S_ramen_noodles, TestModeScore)

\* foodKeywords of part_000
foodKeywords ==
  { <<"f", "o", "o", "d">>,
    <<"d", "i", "s", "h">>,
    <<"m", "e", "a", "l">>,
    <<"c", "u", "i", "s", "i", "n", "e">>,
    <<"r", "e", "s", "t", "a", "u", "r", "a", "n", "t">>,
    <<"c", "o", "o", "k", "i", "n", "g">>,
    <<"r", "a", "m", "e", "n">>,
    <<"n", "o", "o", "d", "l", "e", "s">>,
    <<"h", "a", "m", "b", "u", "r", "g", "e", "r">>,
    <<"p", "i", "z", "z", "a">>,
    <<"r", "i", "c", "e">>,
    <<"s", "u", "s", "h", "i">>,
    <<"s", "a", "l", "a", "d">>,
    <<"s", "a", "n", "d", "w", "i", "c", "h">>,
    <<"s", "t", "e", "a", "k">>,
    <<"c", "h", "i", "c", "k", "e", "n">>,
    <<"f", "i", "s", "h">>,
    <<"m", "e", "a", "t">>,
    <<"v", "e", "g", "e", "t", "a", "b", "l", "e">>,
    <<"f", "r", "u", "i", "t">>,
    <<"b", "r", "e", "a", "d">>,
    <<"p", "a", "s", "t", "a">>,
    <<"s", "o", "u", "p">>,
    <<"b", "u", "r", "g", "e", "r">>,
    <<"f", "a", "s", "t", " ", "f", "o", "o", "d">>,
    <<"j", "u", "n", "k", " ", "f", "o", "o", "d">>,
    <<"s", "n", "a", "c", "k">>,
    <<"d", "e", "s", "s", "e", "r", "t">>,
    <<"c", "a", "k", "e">>,
    <<"c", "o", "o", "k", "i", "e">> }

BestScoreFloor == 5000
SoupScore == 9200
StewScore == 8800
MealScore == 8500
GuessScore == 8000
EmptyResponseScore == 7000
FailureScore == 5000

\* Math.floor((imageSize % 100000) / 10000), then index % foodOptions.length
SizeIndex(imageSize, n) == (((imageSize % 100000) \div 10000) % n) + 1

\* a loop without the comparison score > bestScore: the last label that
\* contains a food keyword is kept
RECURSIVE BestFoodLabelAnyScore(_, _)
BestFoodLabelAnyScore(labels, acc) ==
  IF labels = <<>>
    THEN acc
    ELSE LET labelText == toLowerCase(Head(labels).label)
         IN  BestFoodLabelAnyScore(Tail(labels),
               IF \E keyword \in foodKeywords : includes(labelText, keyword)
                 THEN <<labelText, Head(labels).score>>
                 ELSE acc)

\* part_000: the loop over labelAnnotations; acc is <<bestFoodLabel, bestScore>>
RECURSIVE BestFoodLabel(_, _)
BestFoodLabel(labels, acc) ==
  IF labels = <<>>
    THEN acc
    ELSE LET labelText == toLowerCase(Head(labels).label)
             score == Head(labels).score
         IN  BestFoodLabel(Tail(labels),
               IF (\E keyword \in foodKeywords : includes(labelText, keyword))
                  /\ score > acc[2]
                 THEN <<labelText, score>>
                 ELSE acc)

HasLabel(labels, word) ==
  \E n \in 1..Len(labels) : includes(toLowerCase(labels[n].label), word)

\* a recogniser without the guess: the loop's pair is returned as it is
InferFromLabelsNone(labels, imageSize) == Result(S_unknown_food, BestScoreFloor)

\* part_000: the guess made when only 'food' or nothing was found
InferFromLabels(labels, imageSize) ==
  IF HasLabel(labels, <<"s", "o", "u", "p">>)
    THEN Result(<<"s", "o", "u", "p">>, SoupScore)
    ELSE IF HasLabel(labels, <<"s", "t", "e", "w">>)
      THEN Result(<<"s", "t", "e", "w">>, StewScore)
      ELSE IF HasLabel(labels, <<"t", "a", "b", "l", "e", "w", "a", "r", "e">>) /\ HasLabel(labels, <<"i", "n", "g", "r", "e", "d", "i", "e", "n", "t">>)
        THEN Result(<< <<"h", "a", "m", "b", "u", "r", "g", "e", "r">>,
                       <<"p", "i", "z", "z", "a">>,
                       <<"r", "a", "m", "e", "n", " ", "n", "o", "o", "d", "l", "e", "s">>,
                       <<"r", "i", "c", "e", " ", "b", "o", "w", "l">>,
                       <<"s", "a", "n", "d", "w", "i", "c", "h">> >>[SizeIndex(imageSize, 5)],
                    MealScore)
        ELSE Result(<< <<"h", "a", "m", "b", "u", "r", "g", "e", "r">>,
                       <<"p", "i", "z", "z", "a">>,
                       <<"r", "a", "m", "e", "n", " ", "n", "o", "o", "d", "l", "e", "s">>,
                       <<"r", "i", "c", "e">>,
                       <<"s", "u", "s", "h", "i">> >>[SizeIndex(imageSize, 5)],
                    GuessScore)

\* a catch branch that answers the same dish whatever the image size
LocalFallbackFirstDish(imageSize) ==
  Result(<<"r", "a", "m", "e", "n", " ", "n", "o", "o", "d", "l", "e", "s">>, 8500)

\* part_000: the catch branch, a dish chosen by the image size
LocalFallback(imageSize) ==
  << Result(<<"r", "a", "m", "e", "n", " ", "n", "o", "o", "d", "l", "e", "s">>, 8500),
     Result(<<"h", "a", "m", "b", "u", "r", "g", "e", "r">>, 8800),
     Result(<<"p", "i", "z", "z", "a">>, 9100),
     Result(<<"r", "i", "c", "e">>, 8200),
     Result(<<"s", "u", "s", "h", "i">>, 8900) >>[SizeIndex(imageSize, 5)]

(***************************************************************************)
(* The outcome of the remote recognition call: it fails (network error,    *)
(* non-2xx status, no credential), or answers with a body that either      *)
(* holds a list of (label, score) classes or does not.                     *)
(***************************************************************************)
Class(label, score) == [labelled |-> TRUE, label |-> label, score |-> score]
Unlabelled(score) == [labelled |-> FALSE, label |-> << >>, score |-> score]

\* what the remote service answers for an image when it answers with a
\* class list, by the image's byte length
ResponseFor(imageSize) ==
  IF imageSize = 12345
    THEN << Class(<<"N", "o", "o", "d", "l", "e", "s">>, 6200),
            Class(<<"R", "a", "m", "e", "n">>, 9125) >>
    ELSE << Class(<<"F", "o", "o", "d">>, 9700),
            Class(<<"T", "a", "b", "l", "e", "w", "a", "r", "e">>, 9300),
            Class(<<"I", "n", "g", "r", "e", "d", "i", "e", "n", "t">>, 9000) >>

NoCall == [ok |-> FALSE, wellFormed |-> FALSE, data |-> << >>]

BackendOutcomes(imageSize) ==
  { NoCall,
    [ok |-> TRUE, wellFormed |-> FALSE, data |-> << >>],
    [ok |-> TRUE, wellFormed |-> TRUE, data |-> << Unlabelled(9000) >>],
    [ok |-> TRUE, wellFormed |-> TRUE, data |-> ResponseFor(imageSize)] }

\* whether recognizeFoodFromImage reaches its remote call
CallsBackend(v, apiKey, testMode) ==
  CASE v = "webhook" -> FALSE
    [] v = "server"  -> apiKey /\ ~(testMode \/ TRUE)
    [] v = "part000" -> apiKey
    [] v = "part001" -> apiKey

\* api/webhook.ts
RecognizeWebhook(apiKey, testMode) ==
  IF ~apiKey THEN Null
  ELSE IF testMode THEN TestModeResult
  ELSE Null

\* part_002 (the vision service imported by server.ts)
RecognizeService(apiKey, testMode, backend) ==
  IF ~apiKey THEN Null
  ELSE IF testMode \/ TRUE THEN TestModeResult
  ELSE IF backend.ok /\ backend.wellFormed /\ backend.data # << >>
    THEN ResultOf(backend.data[1])
  ELSE Null

\* a classifier adapter that answers null when the remote call fails
RecognizeClassifierNullOnFailure(apiKey, backend) ==
  IF ~apiKey \/ ~backend.ok THEN Null
  ELSE IF backend.wellFormed /\ backend.data # << >>
    THEN ResultOf(backend.data[1])
  ELSE Result(S_food, EmptyResponseScore)

\* part_001
RecognizeClassifier(apiKey, backend) ==
  IF ~apiKey THEN Null
  ELSE IF ~backend.ok THEN Result(S_unknown_food, FailureScore)
  ELSE IF backend.wellFormed /\ backend.data # << >>
    THEN ResultOf(backend.data[1])
  ELSE Result(S_food, EmptyResponseScore)

\* part_000
RecognizeLabelDetection(imageSize, backend) ==
  IF /\ backend.ok /\ backend.wellFormed
     /\ \A n \in 1..Len(backend.data) : backend.data[n].labelled
    THEN LET best == BestFoodLabel(backend.data, <<S_unknown_food, BestScoreFloor>>)
         IN  IF best[1] = S_food \/ best[1] = S_unknown_food
               THEN InferFromLabels(backend.data, imageSize)
               ELSE Result(best[1], best[2])
    ELSE LocalFallback(imageSize)

recognizeFoodFromImage(v, apiKey, testMode, imageSize, backend) ==
  CASE v = "webhook" -> RecognizeWebhook(apiKey, testMode)
    [] v = "server"  -> RecognizeService(apiKey, testMode, backend)
    [] v = "part000" -> RecognizeLabelDetection(imageSize, backend)
    [] v = "part001" -> RecognizeClassifier(apiKey, backend)

\* whether a statement inside the try block of recognizeFoodFromImage throws:
\* the rejected remote call, and in part_000 also the missing credential
\* (no backend call is made then), a body without a label list and a label
\* without a description
RaisedInTry(v, apiKey, testMode, backend) ==
  CASE v = "webhook" -> FALSE
    [] v = "server"  -> CallsBackend(v, apiKey, testMode) /\ ~backend.ok
    [] v = "part000" -> ~(/\ backend.ok /\ backend.wellFormed
                          /\ \A n \in 1..Len(backend.data) : backend.data[n].labelled)
    [] v = "part001" -> CallsBackend(v, apiKey, testMode) /\ ~backend.ok

\* the try block has a catch clause that returns a value
Catches(v) == v \in {"server", "part000", "part001"}

\* whether an exception leaves recognizeFoodFromImage
RecognizeThrows(v, apiKey, testMode, backend) ==
  RaisedInTry(v, apiKey, testMode, backend) /\ ~Catches(v)

EstimatorOf(v) == IF v = "server" THEN "service" ELSE "inline"

(***************************************************************************)
(* Messages.  The fixed texts are kept by kind; the echo text and the      *)
(* fields of the result text are computed.                                 *)
(***************************************************************************)
\* the decimal digits of a natural number
RECURSIVE Digits(_)
Digits(n) ==
  IF n < 10
    THEN << <<"0", "1", "2", "3", "4", "5", "6", "7", "8", "9">>[n + 1] >>
    ELSE Digits(n \div 10) \o Digits(n % 10)

\* (recognition.score * 100).toFixed(1)
Confidence(score) ==
  LET tenths == (score + 5) \div 10
  IN  Digits(tenths \div 10) \o <<".">> \o Digits(tenths % 10)

\* the prefix of the echo, U+6536 U+5230 U+4F60 U+7684 U+8A0A U+606F U+FF1A
EchoPrefix == <<"u6536", "u5230", "u4F60", "u7684", "u8A0A", "u606F", "uFF1A">>

Msg(kind, text, food, kcal, unit, conf) ==
  [kind |-> kind, text |-> text, food |-> food, kcal |-> kcal, unit |-> unit,
   conf |-> conf]

NoMsg == Msg("none", << >>, << >>, Undefined, "", << >>)
EchoMsg(text) == Msg("echo", EchoPrefix \o text, << >>, Undefined, "", << >>)
AckMsg == Msg("ack", << >>, << >>, Undefined, "", << >>)
DownloadFailedMsg == Msg("downloadFailed", << >>, << >>, Undefined, "", << >>)
UnrecognisedMsg == Msg("unrecognised", << >>, << >>, Undefined, "", << >>)
\* a result message that names the raw label instead of calorie.foodName
ResultMsgRawLabel(v, recognition) ==
  LET calorie == estimateCalories(EstimatorOf(v), recognition.label)
  IN  Msg("result", << >>, recognition.label, calorie.estimatedCalories,
          calorie.unit, Confidence(recognition.score))

ResultMsg(v, recognition) ==
  LET calorie == estimateCalories(EstimatorOf(v), recognition.label)
  IN  Msg("result", << >>, calorie.foodName, calorie.estimatedCalories,
          calorie.unit, Confidence(recognition.score))

Call(op, ok, token, to, msg) ==
  [op |-> op, ok |-> ok, token |-> token, to |-> to, msg |-> msg]

(***************************************************************************)
(* Events of a webhook request.                                            *)
(***************************************************************************)
NoUser == ""
UserIds == {"U1", "U2"}
TextPayloads == {<<"h", "e", "l", "l", "o">>, <<"4", "2">>}
\* the byte length of the image each sender posts
ImageSizeOf(userId) == IF userId = "U2" THEN 250000 ELSE 12345

Event(kind, text, userId, imageSize) ==
  [kind |-> kind, text |-> text, userId |-> userId, imageSize |-> imageSize]

\* event.type / event.message.type: a text message, an image message, or
\* anything else (a follow event, a sticker); event.source?.userId may be absent
Events ==
  {Event("text", t, "U1", 0) : t \in TextPayloads}
    \cup {Event("image", << >>, u, ImageSizeOf(u)) : u \in UserIds \cup {NoUser}}
    \cup {Event("other", << >>, "U1", 0)}

Batches == UNION {[1..n -> Events] : n \in 0..MaxEvents}

Methods == {"GET", "POST", "PUT"}

(***************************************************************************)
(* State.                                                                  *)
(***************************************************************************)
VARIABLES
  variant,   \* which handler file runs
  env,       \* process.env: lineConfigured, apiKey, testMode
  method,    \* req.method of the request being handled
  events,    \* req.body.events
  pc,        \* handler: "idle", "reply", "pipeline", "done"
  i,         \* index of the event the handler's loop is at
  status,    \* HTTP status sent, 0 while none is sent
  body,      \* the response body sent with it
  calls,     \* per event, the outbound calls completed for it, in order
  task,      \* per event, the image pipeline: its position and local data
  estWhich,  \* estimateCalories called on its own: which copy
  estPhrase, \* the lowercase phrase its input was written from
  estLabel,  \* its input, the phrase in some case with some padding
  estOut,    \* its output, once computed
  recSize,   \* recognizeFoodFromImage called on its own: imageBuffer.length
  recBackend,\* the outcome of its remote call
  recOut     \* its output, once computed

vars == <<variant, env, method, events, pc, i, status, body, calls, task,
          estWhich, estPhrase, estLabel, estOut, recSize, recBackend, recOut>>

dispatcherVars == <<variant, env, method, events, pc, i, status, body, calls, task>>
estVars == <<estWhich, estPhrase, estLabel, estOut>>
recVars == <<recSize, recBackend, recOut>>

\* what the handler sends with the status: nothing yet, the health JSON with
\* lineBotConfigured: !!client, a JSON { error }, or no body (res.end())
NoBody == [kind |-> "none", lineBotConfigured |-> FALSE]
HealthBodyAlwaysConfigured(client) == [kind |-> "health", lineBotConfigured |-> TRUE]
HealthBody(client) == [kind |-> "health", lineBotConfigured |-> client]
ErrorBody == [kind |-> "error", lineBotConfigured |-> FALSE]
EmptyBody == [kind |-> "empty", lineBotConfigured |-> FALSE]

\* const client = (channelAccessToken && channelSecret) ? new Client(config) : null
Client(e) == e.lineConfigured

NoTask == [pc |-> "none", image |-> 0, recognition |-> Null, pending |-> NoMsg]

\* detached: the pipeline runs in an un-awaited async function
Detached(v) == v \in {"webhook", "server"}

\* the first event at or after j that the loop awaits a reply for
RECURSIVE NextAwait(_, _)
NextAwait(evs, j) ==
  IF j > Len(evs) \/ evs[j].kind \in {"text", "image"}
    THEN j
    ELSE NextAwait(evs, j + 1)

NotComputed == [done |-> FALSE, foodName |-> << >>, estimatedCalories |-> Undefined,
                unit |-> ""]
NotRecognized == [done |-> FALSE, threw |-> FALSE, called |-> FALSE, result |-> Null]

InitEnv ==
  /\ variant \in Variants
  /\ env \in [lineConfigured : BOOLEAN, apiKey : BOOLEAN, testMode : BOOLEAN]
  /\ method = "" /\ events = << >> /\ pc = "idle" /\ i = 0 /\ status = 0
  /\ body = NoBody
  /\ calls = << >> /\ task = << >>

Init ==
  /\ InitEnv
  /\ estWhich = "service" /\ estPhrase = << >> /\ estLabel = << >>
  /\ estOut = NotComputed
  /\ recSize = 0 /\ recBackend = NoCall /\ recOut = NotRecognized

(***************************************************************************)
(* The handler.                                                            *)
(***************************************************************************)
\* the loop runs on from event j to its next await, or to the response
Continue(j) ==
  LET n == NextAwait(events, j)
  IN  /\ i' = n
      /\ IF n > Len(events)
           THEN pc' = "done" /\ status' = 200 /\ body' = EmptyBody
           ELSE pc' = "reply" /\ status' = status /\ body' = body

\* a request arrives: method checks, credential check, start of the loop
Receive ==
  /\ pc = "idle"
  /\ \E m \in Methods, b \in Batches :
       /\ variant = "server" => m # "PUT"
       /\ method' = m
       /\ events' = b
       /\ calls' = [k \in 1..Len(b) |-> << >>]
       /\ task' = [k \in 1..Len(b) |-> NoTask]
       /\ IF m = "GET"
            THEN /\ pc' = "done" /\ status' = 200 /\ i' = 0
                 /\ body' = HealthBody(Client(env))
            ELSE IF m # "POST"
              THEN pc' = "done" /\ status' = 405 /\ i' = 0 /\ body' = ErrorBody
              ELSE IF ~env.lineConfigured
                THEN pc' = "done" /\ status' = 500 /\ i' = 0 /\ body' = ErrorBody
                ELSE LET n == NextAwait(b, 1)
                     IN  /\ i' = n
                         /\ IF n > Len(b)
                              THEN pc' = "done" /\ status' = 200 /\ body' = EmptyBody
                              ELSE pc' = "reply" /\ status' = 0 /\ body' = NoBody
  /\ UNCHANGED <<variant, env, estVars, recVars>>

\* a handler whose every replyMessage is inside a try that only logs
ReplyFailureNeverAborts(v, kind) == FALSE

\* a throw of the awaited replyMessage reaches the outer catch (status 500),
\* except for the acknowledgment of part_000/part_001, inside the inner try
ReplyFailureAborts(v, kind) == Detached(v) \/ kind = "text"

\* a pipeline that starts whether or not the acknowledgment threw
PipelineStartsAnyway(ok) == TRUE

\* the pipeline of an image event starts only after the awaited
\* acknowledgment has returned without throwing
PipelineStarts(ok) == ok

\* the sender check that opens the detached task
TaskEntry(v, userId) ==
  IF Detached(v) /\ userId = NoUser THEN "done" ELSE "download"

\* the awaited client.replyMessage(event.replyToken, ...) of event i returns or throws
ReplyCompletes ==
  /\ pc = "reply"
  /\ \E ok \in BOOLEAN :
       LET e == events[i]
           msg == IF e.kind = "text" THEN EchoMsg(e.text) ELSE AckMsg
       IN  /\ calls' = [calls EXCEPT ![i] = Append(@, Call("reply", ok, i, "", msg))]
           /\ IF e.kind = "image" /\ PipelineStarts(ok)
                THEN /\ task' = [task EXCEPT ![i].pc = TaskEntry(variant, e.userId)]
                     /\ IF Detached(variant)
                          THEN Continue(i + 1)
                          ELSE /\ pc' = "pipeline" /\ i' = i
                               /\ status' = status /\ body' = body
                ELSE /\ task' = task
                     /\ IF ~ok /\ ReplyFailureAborts(variant, e.kind)
                          THEN /\ pc' = "done" /\ status' = 500 /\ i' = i
                               /\ body' = EmptyBody
                          ELSE Continue(i + 1)
  /\ UNCHANGED <<variant, env, method, events, estVars, recVars>>

(***************************************************************************)
(* The image pipeline of event k: download, recognise, push.  In the       *)
(* detached versions it runs beside the handler; in part_000 and part_001  *)
(* the handler awaits each step, and goes on with the loop when it ends.   *)
(***************************************************************************)
\* a loop variable shared by all iterations: a task that runs after the loop
\* sees the last event
CapturedEventLast(evs, k) == evs[Len(evs)]

\* for (const event of events): each iteration has its own binding of event,
\* which the task started in that iteration closes over
CapturedEvent(evs, k) == evs[k]

\* the pipeline of event k ends; the inline handler goes on with the loop
Finish(k) ==
  IF Detached(variant)
    THEN UNCHANGED <<pc, i, status, body>>
    ELSE Continue(k + 1)

\* only api/webhook.ts wraps the download in its own try/catch and pushes
\* a failure message; elsewhere the error goes to the catch that only logs
DownloadFailureMsg(v) == IF v = "webhook" THEN DownloadFailedMsg ELSE NoMsg

\* estimateCalories(recognition.label) throws a TypeError at
\* foodLabelRaw.toLowerCase() when the label is undefined
EstimateThrows(recognition) == recognition.present /\ ~recognition.labelled

\* the message the handler decides to push once recognition has returned;
\* none when estimateCalories throws: the catch around the pipeline only logs
AfterRecognition(v, userId, recognition) ==
  IF Detached(v)
    THEN IF ~recognition.present THEN UnrecognisedMsg
         ELSE IF EstimateThrows(recognition) THEN NoMsg
         ELSE ResultMsg(v, recognition)
    ELSE IF userId # NoUser /\ recognition.present
      THEN IF EstimateThrows(recognition) THEN NoMsg ELSE ResultMsg(v, recognition)
      ELSE IF userId # NoUser THEN UnrecognisedMsg ELSE NoMsg

\* the awaited image download of event k returns or throws
DownloadCompletes(k) ==
  /\ task[k].pc = "download"
  /\ \E ok \in BOOLEAN :
       /\ calls' = [calls EXCEPT ![k] = Append(@, Call("download", ok, 0, "", NoMsg))]
       /\ IF ok
            THEN /\ task' = [task EXCEPT ![k].pc = "recognize",
                                         ![k].image = CapturedEvent(events, k).imageSize]
                 /\ UNCHANGED <<pc, i, status, body>>
            ELSE IF DownloadFailureMsg(variant) # NoMsg
              THEN /\ task' = [task EXCEPT ![k].pc = "push",
                                           ![k].pending = DownloadFailureMsg(variant)]
                   /\ UNCHANGED <<pc, i, status, body>>
              ELSE /\ task' = [task EXCEPT ![k].pc = "done"]
                   /\ Finish(k)
  /\ UNCHANGED <<variant, env, method, events, estVars, recVars>>

\* the awaited recognizeFoodFromImage(imageBuffer) of event k returns
RecognizeCompletes(k) ==
  /\ task[k].pc = "recognize"
  /\ \E backend \in BackendOutcomes(task[k].image) :
       LET remote == CallsBackend(variant, env.apiKey, env.testMode)
           recognition == recognizeFoodFromImage(variant, env.apiKey, env.testMode,
                                                 task[k].image, backend)
           msg == AfterRecognition(variant, CapturedEvent(events, k).userId, recognition)
       IN  /\ ~remote => backend = NoCall
           /\ calls' = IF remote
                         THEN [calls EXCEPT ![k] =
                                 Append(@, Call("backend", backend.ok, 0, "", NoMsg))]
                         ELSE calls
           /\ IF msg # NoMsg
                THEN /\ task' = [task EXCEPT ![k].pc = "push",
                                             ![k].recognition = recognition,
                                             ![k].pending = msg]
                     /\ UNCHANGED <<pc, i, status, body>>
                ELSE /\ task' = [task EXCEPT ![k].pc = "done",
                                             ![k].recognition = recognition]
                     /\ Finish(k)
  /\ UNCHANGED <<variant, env, method, events, estVars, recVars>>

\* a task that sends the push again when it threw
AfterPushRetry(ok) == IF ok THEN "done" ELSE "push"

\* where the task goes after its push: every push is the last statement of
\* its path, and a throw goes to the catch that only logs
AfterPush(ok) == "done"

\* the awaited client.pushMessage(userId, ...) of event k returns or throws;
\* a throw is caught by the pipeline's catch, which only logs
PushCompletes(k) ==
  /\ task[k].pc = "push"
  /\ \E ok \in BOOLEAN :
       /\ calls' = [calls EXCEPT ![k] =
                      Append(@, Call("push", ok, 0, CapturedEvent(events, k).userId, task[k].pending))]
       /\ task' = [task EXCEPT ![k].pc = AfterPush(ok)]
       /\ IF AfterPush(ok) = "done"
            THEN Finish(k)
            ELSE UNCHANGED <<pc, i, status, body>>
  /\ UNCHANGED <<variant, env, method, events, estVars, recVars>>

Next ==
  \/ Receive
  \/ ReplyCompletes
  \/ \E k \in 1..Len(events) : DownloadCompletes(k)
  \/ \E k \in 1..Len(events) : RecognizeCompletes(k)
  \/ \E k \in 1..Len(events) : PushCompletes(k)

Spec == Init /\ [][Next]_vars

(***************************************************************************)
(* estimateCalories on its own: the label is a phrase of up to MaxWords    *)
(* words, written in some case and padded with white space.                *)
(***************************************************************************)
Vocabulary ==
  { <<"r", "i", "c", "e">>, <<"b", "r", "e", "a", "d">>, <<"s", "u", "s", "h", "i">>,
    <<"f", "r", "i", "e", "d">>, <<"c", "h", "i", "c", "k", "e", "n">>,
    <<"n", "o", "o", "d", "l", "e", "s">>, <<"r", "a", "m", "e", "n">>,
    <<"b", "u", "r", "g", "e", "r">>, <<"t", "o", "a", "s", "t">>,
    <<"x", "y", "z", "z", "y">>, <<"s", "p", "i", "c", "y">>, S_constructor }

RECURSIVE Phrase(_)
Phrase(ws) ==
  IF ws = << >> THEN << >>
  ELSE IF Len(ws) = 1 THEN ws[1]
  ELSE ws[1] \o <<" ">> \o Phrase(Tail(ws))

Phrases == {Phrase(ws) : ws \in UNION {[1..n -> Vocabulary] : n \in 0..MaxWords}}

Cases == {"lower", "upper", "capital"}
Pads == {"none", "spaces", "tabs"}

InCase(c, s) ==
  CASE c = "lower"   -> s
    [] c = "upper"   -> toUpperCase(s)
    [] c = "capital" -> IF s = << >> THEN s ELSE <<UpperChar(s[1])>> \o Tail(s)

Padded(p, s) ==
  CASE p = "none"   -> s
    [] p = "spaces" -> <<" ">> \o s \o <<" ", " ">>
    [] p = "tabs"   -> <<"\t", " ">> \o s \o <<"\n">>

InitEst ==
  /\ variant = "server"
  /\ env = [lineConfigured |-> TRUE, apiKey |-> TRUE, testMode |-> FALSE]
  /\ method = "" /\ events = << >> /\ pc = "idle" /\ i = 0 /\ status = 0
  /\ body = NoBody
  /\ calls = << >> /\ task = << >>
  /\ estWhich \in Estimators
  /\ estPhrase \in Phrases
  /\ \E c \in Cases, p \in Pads : estLabel = Padded(p, InCase(c, estPhrase))
  /\ estOut = NotComputed
  /\ recSize = 0 /\ recBackend = NoCall /\ recOut = NotRecognized

Estimate ==
  /\ ~estOut.done
  /\ estOut' = [done |-> TRUE] @@ estimateCalories(estWhich, estLabel)
  /\ UNCHANGED <<dispatcherVars, estWhich, estPhrase, estLabel, recVars>>

NextEst == Estimate

SpecEst == InitEst /\ [][NextEst]_vars

(***************************************************************************)
(* recognizeFoodFromImage on its own: one call on an image of some size,   *)
(* under some configuration, with some outcome of the remote call.         *)
(***************************************************************************)
RecSizes == {12345, 30000, 250000}

\* the classes a remote service may list, one of them without a label
RecClasses ==
  { Class(<<"F", "o", "o", "d">>, 9700),
    Class(<<"U", "n", "k", "n", "o", "w", "n", " ", "f", "o", "o", "d">>, 9500),
    Class(<<"R", "a", "m", "e", "n">>, 9125),
    Class(<<"P", "i", "z", "z", "a">>, 9125),
    Class(<<"N", "o", "o", "d", "l", "e", "s">>, 6200),
    Class(<<"R", "i", "c", "e">>, 5000),
    Class(<<"S", "o", "u", "p">>, 4000),
    Class(<<"T", "a", "b", "l", "e", "w", "a", "r", "e">>, 9300),
    Class(<<"I", "n", "g", "r", "e", "d", "i", "e", "n", "t">>, 9000),
    Unlabelled(9000) }

RecBackends ==
  { NoCall, [ok |-> TRUE, wellFormed |-> FALSE, data |-> << >>] }
    \cup { [ok |-> TRUE, wellFormed |-> TRUE, data |-> d] :
             d \in UNION {[1..n -> RecClasses] : n \in 0..MaxLabels} }

InitRec ==
  /\ variant \in Variants
  /\ env \in [lineConfigured : {TRUE}, apiKey : BOOLEAN, testMode : BOOLEAN]
  /\ method = "" /\ events = << >> /\ pc = "idle" /\ i = 0 /\ status = 0
  /\ body = NoBody
  /\ calls = << >> /\ task = << >>
  /\ estWhich = "service" /\ estPhrase = << >> /\ estLabel = << >>
  /\ estOut = NotComputed
  /\ recSize \in RecSizes
  /\ recBackend \in RecBackends
  /\ ~CallsBackend(variant, env.apiKey, env.testMode) => recBackend = NoCall
  /\ recOut = NotRecognized

Recognize ==
  /\ ~recOut.done
  /\ recOut' =
       [done |-> TRUE,
        threw |-> RecognizeThrows(variant, env.apiKey, env.testMode, recBackend),
        called |-> CallsBackend(variant, env.apiKey, env.testMode),
        result |-> recognizeFoodFromImage(variant, env.apiKey, env.testMode,
                                          recSize, recBackend)]
  /\ UNCHANGED <<dispatcherVars, estVars, recSize, recBackend>>

NextRec == Recognize

SpecRec == InitRec /\ [][NextRec]_vars

(***************************************************************************)
(* Vocabulary of the properties.                                           *)
(***************************************************************************)
EventIds == 1..Len(events)
Replied(k) == {n \in 1..Len(calls[k]) : calls[k][n].op = "reply"}
Pushed(k) == {n \in 1..Len(calls[k]) : calls[k][n].op = "push"}
HasCall(k, op) == \E n \in 1..Len(calls[k]) : calls[k][n].op = op
Awaited(k) == events[k].kind \in {"text", "image"}
KnownSender(k) == events[k].userId # NoUser
\* the request was a POST that reached the loop over the events
Dispatched == pc # "idle" /\ method = "POST" /\ env.lineConfigured
\* the response is sent and no pipeline is still running
Finished == pc = "done" /\ \A k \in EventIds : task[k].pc \in {"none", "done"}

\* C1: for every image event, a push (completed or issued and pending) comes
\* only after the acknowledgment reply of the same event has returned
\* successfully; when the acknowledgment failed, no push is sent for the event.
C1_AckPrecedesPush ==
  \A k \in EventIds :
    events[k].kind = "image" =>
      /\ \A n \in Pushed(k) :
           \E m \in 1..(n - 1) :
             /\ calls[k][m].op = "reply" /\ calls[k][m].msg.kind = "ack"
             /\ calls[k][m].ok
      /\ task[k].pc = "push" =>
           \E m \in Replied(k) : calls[k][m].msg.kind = "ack" /\ calls[k][m].ok
      /\ (\E m \in Replied(k) : ~calls[k][m].ok) =>
           Pushed(k) = {} /\ task[k].pc \in {"none"}

C1_Witness ==
  /\ \E k \in EventIds :
       /\ events[k].kind = "image" /\ Pushed(k) # {}
       /\ calls[k][1].op = "reply" /\ calls[k][1].ok
  /\ \E k \in EventIds :
       events[k].kind = "image" /\ Replied(k) # {} /\ ~calls[k][1].ok

\* C2: when the reply call of one event fails, the failure is only logged:
\* the response is not 500, and once the response is sent every later text
\* or image event of the batch has had its own reply call.
C2_ReplyFailureOnlyLogged ==
  \A k \in EventIds :
    (\E n \in Replied(k) : ~calls[k][n].ok) =>
      /\ status # 500
      /\ pc = "done" =>
           /\ status = 200
           /\ \A j \in EventIds : j > k /\ Awaited(j) => Replied(j) # {}

\* the recognition backend call of image event k failed, and it is the only
\* call of the batch that failed or answered without a usable label
OnlyBackendFails(k) ==
  /\ events[k].kind = "image"
  /\ \E n \in 1..Len(calls[k]) : calls[k][n].op = "backend" /\ ~calls[k][n].ok
  /\ \A j \in EventIds : \A n \in 1..Len(calls[j]) :
       ~calls[j][n].ok => j = k /\ calls[j][n].op = "backend"
  /\ \A j \in EventIds : ~EstimateThrows(task[j].recognition)

\* every event other than k got its reply and, an image of a known sender,
\* its final push; the response is 200
OthersComplete(k) ==
  /\ status = 200
  /\ \A j \in EventIds :
       /\ Awaited(j) => Replied(j) # {}
       /\ j # k /\ events[j].kind = "image" /\ KnownSender(j) => Pushed(j) # {}

FallbackPush(v, imageSize) ==
  CASE v = "part001" ->
         Msg("result", << >>, <<"u", "n", "k", "n", "o", "w", "n", " ", "f", "o", "o", "d">>,
             Num(200), "kcal", <<"5", "0", ".", "0">>)
    [] v = "part000" /\ imageSize = 12345 ->
         Msg("result", << >>, <<"h", "a", "m", "b", "u", "r", "g", "e", "r">>,
             Num(500), "kcal", <<"8", "8", ".", "0">>)
    [] v = "part000" /\ imageSize = 250000 ->
         Msg("result", << >>, <<"n", "o", "o", "d", "l", "e", "s">>,
             Num(250), "kcal", <<"8", "5", ".", "0">>)
    [] OTHER -> NoMsg

C4_ErrorReportedToSender ==
  \A k \in EventIds :
    /\ events[k].kind = "image" /\ KnownSender(k)
    /\ task[k].pc = "done"
    /\ \/ \E n \in 1..Len(calls[k]) : calls[k][n].op = "download" /\ ~calls[k][n].ok
       \/ EstimateThrows(task[k].recognition)
    => \E n \in Pushed(k) : calls[k][n].msg.kind = "downloadFailed"

\* C5: the response is sent as soon as every text or image event of the
\* batch has had its reply or acknowledgment performed: there is no state in
\* which all of them are performed and the response is still to be sent.
C5_ResponseNotDelayed ==
  Dispatched /\ (\A k \in EventIds : Awaited(k) => Replied(k) # {}) => status # 0

\* C6: for an image event without a sender id there is no push, no image
\* download and no recognition for it.
C6_NoSenderNoWork ==
  \A k \in EventIds :
    events[k].kind = "image" /\ ~KnownSender(k) =>
      /\ ~HasCall(k, "push") /\ ~HasCall(k, "download") /\ ~HasCall(k, "backend")
      /\ task[k].pc \in {"none", "done"}
      /\ task[k].recognition = Null

\* C7: over a batch, each event's reply token is used in at most one reply
\* call: exactly one for a text event (the echo) and exactly one for an image
\* event (the acknowledgment); the image result never goes through it.
C7_ReplyTokenOnce ==
  /\ \A k \in EventIds : \A n \in 1..Len(calls[k]) :
       /\ calls[k][n].op = "reply" =>
            /\ calls[k][n].token = k
            /\ calls[k][n].msg.kind = (IF events[k].kind = "text" THEN "echo" ELSE "ack")
       /\ calls[k][n].op # "reply" => calls[k][n].token = 0
  /\ \A k \in EventIds : Cardinality(Replied(k)) <= 1
  /\ Dispatched /\ pc = "done" =>
       \A k \in EventIds : Awaited(k) => Cardinality(Replied(k)) = 1

\* C8: for every text event with payload t the dispatcher issues exactly one
\* reply call, whose text is the prefix followed by t unchanged, and no push,
\* download or recognition call.
C8_TextEcho ==
  \A k \in EventIds :
    events[k].kind = "text" =>
      /\ \A n \in 1..Len(calls[k]) :
           /\ calls[k][n].op = "reply"
           /\ calls[k][n].msg.kind = "echo"
           /\ calls[k][n].msg.text =
                <<"u6536", "u5230", "u4F60", "u7684", "u8A0A", "u606F", "uFF1A">>
                  \o events[k].text
      /\ task[k].pc = "none"
      /\ Dispatched /\ pc = "done" => Len(calls[k]) = 1

\* the table value of an own key of the calorie table
TableValue(key) ==
  FOOD_CALORIE_TABLE[CHOOSE n \in 1..Len(FOOD_CALORIE_TABLE) :
                       FOOD_CALORIE_TABLE[n].key = key].kcal

\* C9: for a label whose lowercased, trimmed form is a key of the calorie
\* table, estimateCalories returns that key's table value, foodName equal to
\* the normalized label and unit 'kcal', whatever the case and padding.
C9_ExactMatch ==
  estOut.done /\ estPhrase \in TableKeys =>
    /\ estOut.foodName = estPhrase
    /\ estOut.estimatedCalories = Num(TableValue(estPhrase))
    /\ estOut.unit = "kcal"

C9_Witness ==
  /\ estOut.done /\ estPhrase \in TableKeys
  /\ estLabel # estPhrase /\ Len(estLabel) > Len(estPhrase)
  /\ estLabel[2] \in {"F", "R"}

\* C10: for a label that contains a keyword of some keyword rule,
\* estimateCalories returns the canonical food of a rule whose keyword the
\* label contains, with that food's table value, not the default result of
\* an unmatched label (the label itself as foodName).
C10_KeywordMatch ==
  LET rules == keywordToFood(estWhich)
      matching == {n \in 1..Len(rules) :
                     \E m \in 1..Len(rules[n].keywords) :
                       includes(estPhrase, rules[n].keywords[m])}
  IN  estOut.done /\ matching # {} =>
        /\ \E n \in matching :
             /\ estOut.foodName = rules[n].food
             /\ estOut.estimatedCalories = Num(TableValue(rules[n].food))
        /\ estOut.unit = "kcal"
        /\ estPhrase \notin TableKeys => estOut.foodName # estPhrase

C10_Witness ==
  /\ estOut.done /\ estPhrase \notin TableKeys
  /\ estLabel # estPhrase
  /\ includes(estPhrase, <<"r", "a", "m", "e", "n">>)
  /\ estOut.foodName = <<"n", "o", "o", "d", "l", "e", "s">>

\* the rules of the estimator under test whose keyword the phrase contains
MatchingRules ==
  {n \in 1..Len(keywordToFood(estWhich)) :
     \E m \in 1..Len(keywordToFood(estWhich)[n].keywords) :
       includes(estPhrase, keywordToFood(estWhich)[n].keywords[m])}

\* C11: when a normalized label that is not a table key contains keywords of
\* two or more rules, the result is the canonical food of the rule declared
\* earliest; no later rule overrides it.
C11_EarliestRuleWins ==
  estOut.done /\ estPhrase \notin TableKeys /\ Cardinality(MatchingRules) >= 2 =>
    \E n \in MatchingRules :
      /\ \A m \in MatchingRules : n <= m
      /\ estOut.foodName = keywordToFood(estWhich)[n].food
      /\ estOut.estimatedCalories = Num(TableValue(keywordToFood(estWhich)[n].food))

C11_Witness ==
  /\ estOut.done
  /\ estPhrase = <<"c", "h", "i", "c", "k", "e", "n", " ", "r", "i", "c", "e">>
  /\ estOut.foodName = <<"r", "i", "c", "e">>
  /\ estOut.estimatedCalories = Num(200)

\* C12: for a label whose normalized form is neither a table key nor contains
\* a rule keyword, the result is 200 kcal with foodName the normalized label,
\* or 'food' when the normalized label is empty.
C12_DefaultResult ==
  estOut.done /\ estPhrase \notin TableKeys /\ MatchingRules = {} =>
    /\ estOut.estimatedCalories = Num(200)
    /\ estOut.unit = "kcal"
    /\ estOut.foodName = IF estPhrase = << >> THEN <<"f", "o", "o", "d">> ELSE estPhrase

\* C13: for every string label estimateCalories returns a result whose
\* estimatedCalories is a positive integer, a table value or 200, and whose
\* unit is 'kcal'.
C13_TotalPositive ==
  estOut.done =>
    /\ estOut.estimatedCalories.type = "number"
    /\ estOut.estimatedCalories.n > 0
    /\ \/ estOut.estimatedCalories.n = 200
       \/ \E n \in 1..Len(FOOD_CALORIE_TABLE) :
            FOOD_CALORIE_TABLE[n].kcal = estOut.estimatedCalories.n
    /\ estOut.unit = "kcal"

\* C14: in every estimator copy the canonical food of every keyword rule is a
\* key of the calorie table, so a result of the keyword branch carries the
\* table value of its food and the '?? 200' fallback is never taken.
C14_CanonicalNamesInTable ==
  /\ \A which \in Estimators : \A n \in 1..Len(keywordToFood(which)) :
       \E m \in 1..Len(FOOD_CALORIE_TABLE) :
         FOOD_CALORIE_TABLE[m].key = keywordToFood(which)[n].food
  /\ estOut.done /\ estPhrase \notin TableKeys /\ MatchingRules # {} =>
       \E m \in 1..Len(FOOD_CALORIE_TABLE) :
         /\ FOOD_CALORIE_TABLE[m].key = estOut.foodName
         /\ estOut.estimatedCalories = Num(FOOD_CALORIE_TABLE[m].kcal)

C14_Witness ==
  /\ estOut.done /\ estPhrase \notin TableKeys /\ MatchingRules # {}
  /\ estWhich = "service"
  /\ estPhrase = <<"t", "o", "a", "s", "t">>
  /\ estOut.estimatedCalories = Num(80)

\* the remote call of the recogniser under test failed, was not made for
\* want of a credential, or answered with a malformed body
RecCredentialMissing == ~env.apiKey
RecCallFailed == recOut.called /\ ~recBackend.ok
RecBodyMalformed ==
  /\ recOut.called /\ recBackend.ok
  /\ \/ ~recBackend.wellFormed
     \/ \E n \in 1..Len(recBackend.data) : ~recBackend.data[n].labelled

\* C15: recognizeFoodFromImage never propagates an exception; on a missing
\* credential, a failed remote call or a malformed response body it returns
\* either a fallback label/score pair or null.
C15_NeverThrows ==
  recOut.done =>
    /\ ~recOut.threw
    /\ RecCredentialMissing \/ RecCallFailed \/ RecBodyMalformed =>
         \/ recOut.result = Null
         \/ recOut.result.present /\ recOut.result.labelled

\* the remote call of the recogniser under test answered with a non-empty
\* list of labelled classes
RecClassList ==
  /\ recOut.called /\ recBackend.ok /\ recBackend.wellFormed
  /\ recBackend.data # << >>
  /\ \A n \in 1..Len(recBackend.data) : recBackend.data[n].labelled

\* C17: for every non-empty list of classes the remote classifier returns,
\* in whatever order, the classifier adapter returns the class of the list
\* whose score is highest.
C17_HighestScoreClass ==
  recOut.done /\ variant \in {"part001", "server"} /\ RecClassList =>
    \E n \in 1..Len(recBackend.data) :
      /\ \A m \in 1..Len(recBackend.data) :
           recBackend.data[m].score <= recBackend.data[n].score
      /\ recOut.result.present
      /\ recOut.result.label = recBackend.data[n].label
      /\ recOut.result.score = recBackend.data[n].score

\* the labels of the answer that contain a food keyword once lowercased, and
\* those of them that are neither 'food' nor the 'unknown food' placeholder
RecFoodCandidates ==
  {n \in 1..Len(recBackend.data) :
     \E keyword \in foodKeywords :
       includes(toLowerCase(recBackend.data[n].label), keyword)}
RecSpecific(n) ==
  toLowerCase(recBackend.data[n].label) \notin
    {<<"f", "o", "o", "d">>, <<"u", "n", "k", "n", "o", "w", "n", " ", "f", "o", "o", "d">>}
RecReturned(n) ==
  /\ recOut.result.present
  /\ recOut.result.label = toLowerCase(recBackend.data[n].label)
  /\ recOut.result.score = recBackend.data[n].score

\* C18: in the label-detection variant, among the labels of the answer that
\* contain a food keyword the one with the highest score is selected, provided
\* its score exceeds 0.5; a label whose score does not exceed 0.5 is never
\* returned as the match; a selected label other than 'food' is returned
\* lowercased with its own score.
C18_BestFoodLabel ==
  recOut.done /\ variant = "part000" /\ recBackend.ok /\ recBackend.wellFormed
    /\ (\A n \in 1..Len(recBackend.data) : recBackend.data[n].labelled) =>
    LET Top == {n \in RecFoodCandidates :
                  /\ recBackend.data[n].score > 5000
                  /\ \A m \in RecFoodCandidates :
                       recBackend.data[m].score <= recBackend.data[n].score}
    IN  /\ Top # {} /\ (\A n \in Top : RecSpecific(n)) => \E n \in Top : RecReturned(n)
        /\ \A n \in 1..Len(recBackend.data) :
             RecReturned(n) => n \in Top /\ RecSpecific(n)

C18_Witness ==
  /\ recOut.done /\ variant = "part000"
  /\ recBackend.ok /\ recBackend.wellFormed
  /\ recBackend.data = << Class(<<"R", "i", "c", "e">>, 5000),
                          Class(<<"N", "o", "o", "d", "l", "e", "s">>, 6200) >>
  /\ recOut.result = Result(<<"n", "o", "o", "d", "l", "e", "s">>, 6200)

\* the dishes of the local fallback, in the order of the image-size index
C19_Dishes ==
  << <<"r", "a", "m", "e", "n", " ", "n", "o", "o", "d", "l", "e", "s">>,
     <<"h", "a", "m", "b", "u", "r", "g", "e", "r">>,
     <<"p", "i", "z", "z", "a">>,
     <<"r", "i", "c", "e">>,
     <<"s", "u", "s", "h", "i">> >>
C19_DishScores == <<8500, 8800, 9100, 8200, 8900>>
C19_DishIndex == (((recSize % 100000) \div 10000) % 5) + 1

\* C19 (as stated): when the remote call fails or no credential is
\* configured, recognition returns a dish of the fixed set chosen only by the
\* image byte length, with one fixed placeholder confidence, the same for
\* every fallback result.
C19_FallbackFixedConfidence ==
  /\ recOut.done /\ (RecCredentialMissing \/ RecCallFailed) =>
       /\ recOut.result.present
       /\ recOut.result.label = C19_Dishes[C19_DishIndex]
  /\ \A s1, s2 \in RecSizes : LocalFallback(s1).score = LocalFallback(s2).score

\* C19 (amended): when the remote call fails or no credential is configured,
\* part_000 returns the dish of the fixed set of five chosen only by the
\* image byte length, with the confidence fixed for that dish (0.85, 0.88,
\* 0.91, 0.82, 0.89); part_001 returns 'unknown food' with 0.5 after a failed
\* call and null without a credential; the other variants return null.
C19_FallbackPerDish ==
  recOut.done /\ (RecCredentialMissing \/ RecCallFailed) =>
    recOut.result =
      CASE variant = "part000" ->
             Result(C19_Dishes[C19_DishIndex], C19_DishScores[C19_DishIndex])
        [] variant = "part001" ->
             IF env.apiKey
               THEN Result(<<"u", "n", "k", "n", "o", "w", "n", " ", "f", "o", "o", "d">>, 5000)
               ELSE Null
        [] OTHER -> Null

C19_Witness ==
  /\ recOut.done /\ variant = "part000" /\ RecCallFailed
  /\ recSize = 12345
  /\ recOut.result = Result(<<"h", "a", "m", "b", "u", "r", "g", "e", "r">>, 8800)

\* C20: in the variants that read the test-mode flag, whenever the flag is
\* 'true' recognition returns {ramen noodles, 0.85} without a backend call,
\* whatever else is configured; whenever it is not set, the fixed result is
\* not forced and, a credential being present, the remote call is made.
C20_TestModeDecisive ==
  recOut.done /\ variant \in {"webhook", "server"} =>
    /\ env.testMode =>
         /\ ~recOut.called
         /\ recOut.result =
              Result(<<"r", "a", "m", "e", "n", " ", "n", "o", "o", "d", "l", "e", "s">>, 8500)
    /\ ~env.testMode =>
         /\ recOut.result #
              Result(<<"r", "a", "m", "e", "n", " ", "n", "o", "o", "d", "l", "e", "s">>, 8500)
         /\ env.apiKey => recOut.called

\* the kinds of the messages pushed for event k
PushKinds(k) == {calls[k][n].msg.kind : n \in Pushed(k)}
FailedCall(k, op) ==
  \E n \in 1..Len(calls[k]) : calls[k][n].op = op /\ ~calls[k][n].ok

\* C16: for an image event of a known sender whose pipeline has ended, when
\* recognition returned no usable result the sender was pushed the 'could
\* not recognise' message and no calorie result; when the download or the
\* backend call failed the sender was instead pushed a different, generic
\* failure message, never a recognised-food result.
C16_FailureKindsDistinguished ==
  \A k \in EventIds :
    events[k].kind = "image" /\ KnownSender(k) /\ task[k].pc = "done" =>
      /\ FailedCall(k, "download") \/ FailedCall(k, "backend") =>
           /\ PushKinds(k) # {}
           /\ PushKinds(k) \cap {"result", "unrecognised"} = {}
      /\ /\ HasCall(k, "download")
         /\ ~FailedCall(k, "download") /\ ~FailedCall(k, "backend")
         /\ task[k].recognition = Null
         => PushKinds(k) = {"unrecognised"}

\* what recognition can return, by variant, configuration and image size
RecognitionsOf ==
  [v \in Variants, apiKey \in BOOLEAN, testMode \in BOOLEAN,
   imageSize \in {ImageSizeOf(u) : u \in UserIds \cup {NoUser}} |->
     {recognizeFoodFromImage(v, apiKey, testMode, imageSize, backend) :
        backend \in BackendOutcomes(imageSize)}]
PossibleRecognitions == UNION {RecognitionsOf[x] : x \in DOMAIN RecognitionsOf}

\* the score as a percentage with one decimal, to the nearest tenth
TenthsOfPercent ==
  [score \in {r.score : r \in PossibleRecognitions} |->
     CHOOSE t \in 0..1000 : 10 * t - 5 <= score /\ score < 10 * t + 5]

\* estimateCalories of every label recognition can return
EstimateOf ==
  [which \in Estimators,
   label \in {r.label : r \in {q \in PossibleRecognitions : q.labelled}} |->
     estimateCalories(which, label)]

\* C21: for an image event of a known sender whose recognition returned
\* (label, score), the message pushed at the end carries
\* estimateCalories(label).foodName, its estimatedCalories and unit and the
\* confidence score*100 with one decimal; for ('ramen noodles', 0.85) these
\* are 'noodles', 250, 'kcal' and '85.0'.
C21_ResultMessage ==
  \A k \in EventIds :
    /\ events[k].kind = "image" /\ KnownSender(k) /\ task[k].pc = "done"
    /\ task[k].recognition.present /\ task[k].recognition.labelled
    => /\ Cardinality(Pushed(k)) = 1
       /\ \A n \in Pushed(k) :
            LET msg == calls[k][n].msg
                calorie == EstimateOf[EstimatorOf(variant), task[k].recognition.label]
                tenths == TenthsOfPercent[task[k].recognition.score]
            IN  /\ msg.kind = "result"
                /\ msg.food = calorie.foodName
                /\ msg.kcal = calorie.estimatedCalories
                /\ msg.unit = calorie.unit
                /\ msg.conf = Digits(tenths \div 10) \o <<".">> \o Digits(tenths % 10)
                /\ task[k].recognition.label =
                       <<"r", "a", "m", "e", "n", " ", "n", "o", "o", "d", "l", "e", "s">>
                     /\ task[k].recognition.score = 8500
                     => /\ msg.food = <<"n", "o", "o", "d", "l", "e", "s">>
                        /\ msg.kcal = Num(250)
                        /\ msg.unit = "kcal"
                        /\ msg.conf = <<"8", "5", ".", "0">>

C21_Witness ==
  \E k \in EventIds :
    /\ events[k].kind = "image" /\ KnownSender(k) /\ task[k].pc = "done"
    /\ task[k].recognition =
         Result(<<"r", "a", "m", "e", "n", " ", "n", "o", "o", "d", "l", "e", "s">>, 8500)
    /\ \E n \in Pushed(k) :
         /\ calls[k][n].msg.food = <<"n", "o", "o", "d", "l", "e", "s">>
         /\ calls[k][n].msg.kcal = Num(250)
         /\ calls[k][n].msg.conf = <<"8", "5", ".", "0">>

\* no event of the body has been processed
NoEventProcessed == \A k \in EventIds : calls[k] = << >> /\ task[k] = NoTask

\* C22: a GET request always gets status 200 with a JSON body that reports
\* whether the messaging credentials are configured, also when they are not,
\* and causes no reply, push, download or recognition call.
C22_GetIsHealthProbe ==
  pc # "idle" /\ method = "GET" =>
    /\ pc = "done" /\ status = 200
    /\ body = [kind |-> "health", lineBotConfigured |-> env.lineConfigured]
    /\ NoEventProcessed

C22_Witness ==
  /\ method = "GET" /\ ~env.lineConfigured /\ status = 200
  /\ body.kind = "health" /\ ~body.lineBotConfigured
  /\ \E k \in EventIds : events[k].kind = "image"

\* a replyMessage rejection that no per-event try catches: any in
\* api/webhook.ts, that of a text event in part_000 and part_001
TopLevelFailure ==
  \E k \in EventIds : \E n \in Replied(k) :
    ~calls[k][n].ok /\ (events[k].kind = "text" \/ variant = "webhook")

\* C23: the serverless handler answers 405 to a method other than GET and
\* POST, 500 to a POST when the messaging credentials are missing and 500 to
\* a failure that reaches its outer catch; in the 405 and missing-credential
\* cases no event of the body is processed.
C23_StatusCodes ==
  variant \in {"webhook", "part000", "part001"} /\ pc # "idle" =>
    /\ method \notin {"GET", "POST"} =>
         pc = "done" /\ status = 405 /\ NoEventProcessed
    /\ method = "POST" /\ ~env.lineConfigured =>
         pc = "done" /\ status = 500 /\ NoEventProcessed
    /\ method = "POST" /\ env.lineConfigured /\ TopLevelFailure =>
         pc = "done" /\ status = 500

C23_Witness ==
  /\ variant = "webhook" /\ method = "POST" /\ env.lineConfigured
  /\ TopLevelFailure /\ status = 500
  /\ \E k \in EventIds : events[k].kind = "image" /\ ~calls[k][1].ok

\* what recognition can return for the image of event k
OwnRecognitions(k) ==
  RecognitionsOf[variant, env.apiKey, env.testMode, events[k].imageSize]

\* the working data of event k and its pushes come from event k alone
OwnData(k) ==
  /\ events[k].kind # "image" => task[k] = NoTask /\ Pushed(k) = {}
  /\ task[k].image \in {0, events[k].imageSize}
  /\ task[k].recognition # Null => task[k].recognition \in OwnRecognitions(k)
  /\ \A n \in Pushed(k) :
       /\ calls[k][n].to = events[k].userId
       /\ calls[k][n].msg.kind = "result" =>
            /\ task[k].image = events[k].imageSize
            /\ calls[k][n].msg.conf = Confidence(task[k].recognition.score)

\* a step of the handler or of a task changes the data of one event at most
OneEventPerStep ==
  Len(events') = Len(events) =>
    \E k \in 0..Len(events) :
      \A j \in EventIds \ {k} : task'[j] = task[j] /\ calls'[j] = calls[j]

C25_AtMostOnePush ==
  \A k \in EventIds :
    /\ Cardinality(Pushed(k)) <= 1
    /\ events[k].kind # "image" => Pushed(k) = {}

C25_Witness ==
  \E k \in EventIds :
    /\ events[k].kind = "image" /\ task[k].pc = "done"
    /\ Cardinality(Pushed(k)) = 1
    /\ \E n \in Pushed(k) : ~calls[k][n].ok /\ calls[k][n].msg.kind = "result"

\* C26: for every label the estimateCalories copy inlined in api/webhook.ts
\* returns the same foodName, estimatedCalories and unit as estimateCalories
\* of services/calorie.ts.
C26_CopiesAgree ==
  estOut.done =>
    estimateCalories("inline", estLabel) = estimateCalories("service", estLabel)

\* C27: in the label-detection variant recognizeFoodFromImage always returns
\* a result, never null, whose label is neither 'unknown food' nor 'food' and
\* whose score is greater than 0.5; so for a known sender the handler decides
\* to push a calorie result, never the 'cannot recognise' message.
C27_AlwaysAResult ==
  recOut.done /\ variant = "part000" =>
    /\ recOut.result.present /\ recOut.result.labelled
    /\ recOut.result.label \notin
         {<<"f", "o", "o", "d">>, <<"u", "n", "k", "n", "o", "w", "n", " ", "f", "o", "o", "d">>}
    /\ recOut.result.score > 5000
    /\ \A u \in UserIds : AfterRecognition(variant, u, recOut.result).kind = "result"

C27_Witness ==
  /\ recOut.done /\ variant = "part000"
  /\ recBackend.ok /\ recBackend.wellFormed
  /\ recBackend.data = << Class(<<"F", "o", "o", "d">>, 9700) >>
  /\ recSize = 12345
  /\ recOut.result = Result(<<"p", "i", "z", "z", "a">>, 8000)

====
